---------------------------- MODULE Spec2Model ----------------------------
(***************************************************************************)
(* Model of the picser batch-coalescing upload queues.                     *)
(*                                                                         *)
(*  - the shared queue (RedisUploadQueue, redis-queue.ts) and the Queue    *)
(*    Processor (processQueue, queue-processor.ts), run by several         *)
(*    processes against one Redis list, one lock key and one branch ref;   *)
(*  - the in-memory UploadQueue (upload-queue.ts) of a single process.     *)
(*                                                                         *)
(* Every await of the source is a step of its own, so that other           *)
(* processes interleave exactly where the event loop lets them.            *)
(*                                                                         *)
(* The program constants MAX_BATCH_SIZE (100), CHUNK_SIZE (5) and the byte *)
(* budget (100 MiB) are scaled down, keeping their order.  The scaled      *)
(* CHUNK_SIZE does not divide MAX_BATCH_SIZE, so the cut of the last chunk *)
(* at maxItems is exercised; entries have one size and the byte budget     *)
(* exceeds a full batch, so the item cap is what ends a fetch.             *)
(***************************************************************************)
EXTENDS Integers, Sequences, FiniteSets, TLC

\* ------------------------------------------------------------------ bounds
MaxAdds == 4            \* items ever enqueued in the shared queue
MaxMemAdds == 5         \* items ever enqueued in the in-memory queue
MaxHead == 2            \* ref updates of the branch (all writers together)
MaxListLen == 4         \* longest list getItems is tried on
MaxItemsArg == 4        \* largest maxItems tried
MaxBytesArg == 5        \* largest maxBytes tried
MaxRawLen == 3          \* longest AUTO_SUBMIT_THRESHOLD value tried
MaxThreshold == 4       \* largest AUTO_SUBMIT_THRESHOLD override tried

\* ------------------------------------------------------- program constants
MAX_BATCH_SIZE == 3     \* 100 in the source
CHUNK_SIZE == 2         \* 5 in the source
BatchByteBudget == 4    \* 100 * 1024 * 1024 in the source
DefaultThreshold == 2   \* 20 in the source
MessageLimit == 8       \* 100 in the source
maxRetries == 3

Procs == {"p1", "p2"}   \* process instances sharing the Redis queue
Sizes == {1}             \* serialized sizes of queue entries
Statuses == {409, 422, 500}   \* error.status of a failed remote call

Min(a, b) == IF a < b THEN a ELSE b

VARIABLES
  \* ---- Redis
  rq,         \* the list QUEUE_KEY, head first (LPUSH prepends, RPOP takes the last);
              \* an entry carries two flags of its history, old and done
  lock,       \* TRUE iff LOCK_KEY exists
  nextId,     \* number of items pushed so far (ids are 1..nextId, in push order)
  \* ---- remote repository
  head,       \* commit id the branch ref points to: the number of ref updates
              \* the branch has accepted, 0 for the commit it starts with
  parents,    \* parents[c] is the parent of commit c, the c-th commit the
              \* branch was moved to
  \* ---- configuration
  threshold,  \* getAutoSubmitThreshold()
  \* ---- processQueue
  pq,         \* per process: the locals of its running invocation (see IdleInv)
  report      \* per process: what its last invocation returned

VARIABLES
  \* ---- deployment
  useRedis,   \* redisQueue.isEnabled(): which of the two queues takes the uploads
  serverless, \* isServerlessEnvironment()
  \* ---- UploadQueue (in-memory)
  uq,         \* the instance's fields and the locals of its flush (see InitUq)
  memNext,    \* number of items passed to add so far
  resolved,   \* history: per item, how often its resolve callback was called
  rejected,   \* history: per item, how often its reject callback was called
  last        \* history: the flush that finished last (see NoFlush)

VARIABLES
  \* ---- upload handler
  req         \* the request POST is serving, or served last (see NoRequest)

VARIABLES
  \* ---- the runtime the code is started in
  host,          \* globalThis: Deno, fetch, process and process.env (see Node)
  loaded,        \* which of threshold and serverless have been computed from host
  \* ---- the commit a flush builds
  batchNames,    \* the file names of the batch, in batch order
  commitMessage, \* const commitMessage, <<>> while no commit has been built
  \* ---- RedisUploadQueue.getItems
  getItemsArgs   \* the arguments maxItems and maxBytes of the calls of getItems

redisVars == <<rq, lock, nextId, pq, report>>
memVars == <<uq, memNext, resolved, rejected, last>>
startVars == <<host, loaded, batchNames, commitMessage, getItemsArgs>>
memSide == <<memVars, threshold, useRedis, serverless, req, startVars>>
redisSide == <<redisVars, threshold, useRedis, serverless, req, startVars>>
vars == <<redisVars, memVars, head, parents, threshold, useRedis, serverless, req,
         startVars>>

\* ------------------------------------------------------------ Redis list
\* LRANGE key start stop with 0-based, inclusive, non-negative indices
LRange(list, start, stop) ==
  IF start >= Len(list) \/ stop < start THEN <<>>
  ELSE SubSeq(list, start + 1, Min(stop, Len(list) - 1) + 1)

\* LPUSH key value
LPush(list, e) == <<e>> \o list

\* RPOP key: the list without its last element (unchanged when empty)
RPop(list) == IF list = <<>> THEN <<>> ELSE SubSeq(list, 1, Len(list) - 1)

Ids(s) == {s[k].id : k \in 1..Len(s)}

\* the null of safeParse (item ids start at 1)
null == [id |-> 0, size |-> 0]

\* safeParse: the parsed item, or null for an entry that does not parse
safeParse(raw) == IF raw.ok THEN [id |-> raw.id, size |-> raw.size] ELSE null


\* ------------------------------------------------- RedisUploadQueue.getItems
\* mutant of ScanChunk: the first item too has to fit into maxBytes
RECURSIVE ScanChunkFirstMustFit(_, _, _, _, _)
ScanChunkFirstMustFit(chunk, k, acc, bytes, maxBytes) ==
  IF k > Len(chunk) THEN [items |-> acc, bytes |-> bytes, full |-> FALSE]
  ELSE LET item == safeParse(chunk[k]) IN
       IF item = null
       THEN ScanChunkFirstMustFit(chunk, k + 1, acc, bytes, maxBytes)
       ELSE IF bytes + item.size > maxBytes
            THEN [items |-> acc, bytes |-> bytes, full |-> TRUE]
            ELSE ScanChunkFirstMustFit(chunk, k + 1, Append(acc, item),
                                       bytes + item.size, maxBytes)

\* mutant of RangeEnd: the chunk is not cut at maxItems
RangeEndNoMin(i, maxItems) == i + CHUNK_SIZE - 1

\* min(i + CHUNK_SIZE, maxItems) - 1
RangeEnd(i, maxItems) == Min(i + CHUNK_SIZE, maxItems) - 1

\* the inner for loop over one chunk: [items, bytes, full], full meaning the
\* early "return items" was taken
RECURSIVE ScanChunk(_, _, _, _, _)
ScanChunk(chunk, k, acc, bytes, maxBytes) ==
  IF k > Len(chunk) THEN [items |-> acc, bytes |-> bytes, full |-> FALSE]
  ELSE LET item == safeParse(chunk[k]) IN
       IF item = null THEN ScanChunk(chunk, k + 1, acc, bytes, maxBytes)
       ELSE IF bytes + item.size > maxBytes /\ Len(acc) > 0
            THEN [items |-> acc, bytes |-> bytes, full |-> TRUE]
            ELSE ScanChunk(chunk, k + 1, Append(acc, item), bytes + item.size, maxBytes)

\* one pass of the outer loop, from the lrange to the next loop test:
\* [items, bytes, i, done]
GetItemsStep(list, i, acc, bytes, maxItems, maxBytes) ==
  LET chunk == LRange(list, i, RangeEnd(i, maxItems))
      r == ScanChunk(chunk, 1, acc, bytes, maxBytes)
      ni == i + CHUNK_SIZE
  IN  IF Len(chunk) = 0
      THEN [items |-> acc, bytes |-> bytes, i |-> i, done |-> TRUE]
      ELSE [items |-> r.items, bytes |-> r.bytes, i |-> ni,
            done |-> \/ r.full
                     \/ Len(chunk) < CHUNK_SIZE
                     \/ ~(ni < maxItems)
                     \/ r.bytes >= maxBytes]

\* --------------------------------------------------------------- Init
\* no return statement of the inner try has been executed
NoReturn == [batchSize |-> 0, commitSha |-> 0]

\* the locals of processQueue, as they are outside an invocation
IdleInv ==
  [pc |-> "idle",
   shouldProcess |-> FALSE,    \* const shouldProcess
   queueSize |-> 0,            \* const queueSize
   items |-> <<>>,             \* const items (getItems' accumulator while it runs)
   i |-> 0,                    \* getItems: the loop variable
   currentBytes |-> 0,         \* getItems: currentBytes
   currentCommitSha |-> 0,     \* refData.object.sha
   toPop |-> 0,                \* removeItems: count - i, the pops still to do
   newCommit |-> 0,            \* newCommit.sha, known once the branch points to it
   ret |-> NoReturn,           \* the value of the return statement the finally
                               \* block is running for
   thrown |-> FALSE,           \* an exception is propagating out of the inner try
   conflict |-> FALSE,         \* history: that exception is updateRef's rejection
   calls |-> 0,                \* history: commit sequences begun by this invocation
   updated |-> FALSE,          \* history: this invocation's updateRef was accepted
   holds |-> FALSE,            \* history: acquireLock returned true, and no DEL of
                               \* this invocation has been answered since
   popped |-> {},              \* history: ids this invocation popped
   rest |-> {}]                \* history: ids left in the list when getItems returned

InitShared ==
  /\ rq = <<>>
  /\ lock = FALSE
  /\ nextId = 0
  /\ pq = [p \in Procs |-> IdleInv]
  /\ report = [p \in Procs |-> "none"]


\* the locals of POST, as they are before the first request
NoRequest ==
  [pc |-> "idle",
   id |-> 0,               \* the item pushed for this request, 0 if none
   trigger |-> "none",     \* history: how the last processing trigger ended
   failed |-> "none",      \* history: the call whose exception POST caught
   response |-> "none"]    \* what POST returned

InitUpload == req = NoRequest

\* ------------------------------------------------------- environment
\* RedisUploadQueue.add, called by the upload handler of any request: LPUSH of
\* the serialized item (the LLEN that follows only feeds a log line and the
\* best-effort trigger)
RedisAdd ==
  /\ nextId < MaxAdds
  /\ \E s \in Sizes :
       rq' = LPush(rq, [id |-> nextId + 1, size |-> s, ok |-> TRUE, old |-> FALSE,
                        done |-> FALSE])
  /\ nextId' = nextId + 1
  /\ UNCHANGED <<lock, pq, report, head, parents>>
  /\ UNCHANGED memSide

\* BATCH_TIMEOUT elapses: every entry now in the list is at least 5000 ms old
Elapse ==
  /\ \E k \in 1..Len(rq) : ~rq[k].old
  /\ rq' = [k \in 1..Len(rq) |-> [rq[k] EXCEPT !.old = TRUE]]
  /\ UNCHANGED <<lock, nextId, pq, report, head, parents>>
  /\ UNCHANGED memSide

\* the PX option of acquireLock's SET: Redis drops the key after LOCK_TIMEOUT
LockExpire ==
  /\ lock
  /\ lock' = FALSE
  /\ UNCHANGED <<rq, nextId, pq, report, head, parents>>
  /\ UNCHANGED memSide

\* another writer (a direct upload, a push) advances the branch
OtherWriter ==
  /\ head < MaxHead
  /\ head' = head + 1
  /\ parents' = Append(parents, head)
  /\ UNCHANGED <<redisVars, memVars, threshold, useRedis, serverless, req,
                 startVars>>

\* ------------------------------------------------------- processQueue
Goto(p, l) == pq' = [pq EXCEPT ![p].pc = l]

\* a return statement that is not inside the inner try
Return(p, r) ==
  /\ pq' = [pq EXCEPT ![p] = IdleInv]
  /\ report' = [report EXCEPT ![p] = r]

\* entry of processQueue when queueing is disabled: the report, and nothing
\* else
PQ_Disabled(p) ==
  /\ pq[p].pc = "idle"
  /\ ~useRedis \/ serverless
  /\ report' = [report EXCEPT ![p] = "disabled"]
  /\ UNCHANGED <<rq, lock, nextId, pq, head, parents>>
  /\ UNCHANGED memSide

\* mutant of PQ_Start: the disabled test is skipped
PQ_StartUnconditional(p) ==
  /\ pq[p].pc = "idle"
  /\ Goto(p, "sp_size")
  /\ report' = [report EXCEPT ![p] = "none"]
  /\ UNCHANGED <<rq, lock, nextId, head, parents>>
  /\ UNCHANGED memSide

\* entry of processQueue when queueing is enabled
PQ_Start(p) ==
  /\ pq[p].pc = "idle"
  /\ ~(~useRedis \/ serverless)
  /\ Goto(p, "sp_size")
  /\ report' = [report EXCEPT ![p] = "none"]
  /\ UNCHANGED <<rq, lock, nextId, head, parents>>
  /\ UNCHANGED memSide

\* shouldProcess, first await: this.size(), false when it is 0
ShouldProcessSize(p) ==
  /\ pq[p].pc = "sp_size"
  /\ IF Len(rq) = 0
       THEN pq' = [pq EXCEPT ![p].shouldProcess = FALSE, ![p].pc = "size"]
       ELSE Goto(p, "sp_exists")
  /\ UNCHANGED <<rq, lock, nextId, report, head, parents>>
  /\ UNCHANGED memSide

\* mutant of ShouldProcessExists: the lock key is not looked at
ShouldProcessIgnoresLock(p) ==
  /\ pq[p].pc = "sp_exists"
  /\ pq' = [pq EXCEPT ![p].shouldProcess = TRUE, ![p].pc = "size"]
  /\ UNCHANGED <<rq, lock, nextId, report, head, parents>>
  /\ UNCHANGED memSide

\* shouldProcess, second await: redis.exists(LOCK_KEY) === 0
ShouldProcessExists(p) ==
  /\ pq[p].pc = "sp_exists"
  /\ pq' = [pq EXCEPT ![p].shouldProcess = ~lock, ![p].pc = "size"]
  /\ UNCHANGED <<rq, lock, nextId, report, head, parents>>
  /\ UNCHANGED memSide

\* const queueSize = await redisQueue.size()
PQ_Size(p) ==
  /\ pq[p].pc = "size"
  /\ pq' = [pq EXCEPT ![p].queueSize = Len(rq), ![p].pc = "oldest"]
  /\ UNCHANGED <<rq, lock, nextId, report, head, parents>>
  /\ UNCHANGED memSide

\* getOldestTimestamp (LRANGE -1 -1, safeParse) and the caller's isOldEnough
isOldEnough(list) ==
  /\ Len(list) > 0
  /\ safeParse(list[Len(list)]) # null
  /\ list[Len(list)].old

\* mutant of PQ_Oldest: the not-ready test is skipped
PQ_OldestNoWait(p) ==
  /\ pq[p].pc = "oldest"
  /\ IF ~pq[p].shouldProcess THEN Return(p, "nothing")
     ELSE /\ pq' = [pq EXCEPT ![p] = [IdleInv EXCEPT !.pc = "acquire"]]
          /\ UNCHANGED report
  /\ UNCHANGED <<rq, lock, nextId, head, parents>>
  /\ UNCHANGED memSide

\* mutant of PQ_Oldest: a full queue is not enough, the oldest entry has to be
\* old as well
PQ_OldestAgeOnly(p) ==
  /\ pq[p].pc = "oldest"
  /\ IF ~pq[p].shouldProcess THEN Return(p, "nothing")
     ELSE IF ~isOldEnough(rq)
          THEN Return(p, "notready")
          ELSE /\ pq' = [pq EXCEPT ![p] = [IdleInv EXCEPT !.pc = "acquire"]]
               /\ UNCHANGED report
  /\ UNCHANGED <<rq, lock, nextId, head, parents>>
  /\ UNCHANGED memSide

\* const oldestTimestamp = await redisQueue.getOldestTimestamp(), then the
\* tests that follow it without an await
PQ_Oldest(p) ==
  /\ pq[p].pc = "oldest"
  /\ IF ~pq[p].shouldProcess THEN Return(p, "nothing")
     ELSE IF ~isOldEnough(rq) /\ ~(pq[p].queueSize >= threshold)
          THEN Return(p, "notready")
          ELSE /\ pq' = [pq EXCEPT ![p] = [IdleInv EXCEPT !.pc = "acquire"]]
               /\ UNCHANGED report
  /\ UNCHANGED <<rq, lock, nextId, head, parents>>
  /\ UNCHANGED memSide

\* mutant of AcquireLock: a SET without NX, which overwrites a present key
AcquireLockNoNx(p) ==
  /\ pq[p].pc = "acquire"
  /\ lock' = TRUE
  /\ pq' = [pq EXCEPT ![p].pc = "fetch", ![p].holds = TRUE]
  /\ UNCHANGED <<rq, nextId, head, parents, report>>
  /\ UNCHANGED memSide

\* acquireLock: SET LOCK_KEY value NX PX, true iff the reply is "OK"
AcquireLock(p) ==
  /\ pq[p].pc = "acquire"
  /\ IF ~lock
       THEN /\ lock' = TRUE
            /\ pq' = [pq EXCEPT ![p].pc = "fetch", ![p].holds = TRUE]
            /\ UNCHANGED report
       ELSE /\ Return(p, "contended")
            /\ UNCHANGED lock
  /\ UNCHANGED <<rq, nextId, head, parents>>
  /\ UNCHANGED memSide

\* getItems(MAX_BATCH_SIZE, 100 MiB): one lrange per step; when the loop ends,
\* the items.length === 0 test of processQueue
GetItems(p) ==
  /\ pq[p].pc = "fetch"
  /\ LET r == GetItemsStep(rq, pq[p].i, pq[p].items, pq[p].currentBytes,
                           getItemsArgs.maxItems, getItemsArgs.maxBytes)
     IN  pq' = [pq EXCEPT ![p] =
                 IF ~r.done
                 THEN [@ EXCEPT !.items = r.items, !.currentBytes = r.bytes,
                                !.i = r.i]
                 ELSE [@ EXCEPT !.items = r.items, !.currentBytes = 0, !.i = 0,
                                !.rest = Ids(rq) \ Ids(r.items),
                                !.pc = IF Len(r.items) = 0 THEN "rel_empty"
                                                           ELSE "getRef"]]
  /\ UNCHANGED <<rq, lock, nextId, report, head, parents>>
  /\ UNCHANGED memSide

\* releaseLock: DEL LOCK_KEY
releaseLock == lock' = FALSE

\* items.length === 0: await releaseLock(); return "Queue is empty" (the
\* return then runs the finally block)
ReleaseEmpty(p) ==
  /\ pq[p].pc = "rel_empty"
  /\ releaseLock
  /\ pq' = [pq EXCEPT ![p].pc = "rel_finally", ![p].rest = {},
                      ![p].holds = FALSE]
  /\ UNCHANGED <<rq, nextId, report, head, parents>>
  /\ UNCHANGED memSide

\* octokit.git.getRef: currentCommitSha; then getCommit, createBlob for every
\* item, createTree and createCommit, which add objects to the repository
\* and leave the branch alone
GetRef(p) ==
  /\ pq[p].pc = "getRef"
  /\ pq' = [pq EXCEPT ![p].currentCommitSha = head, ![p].pc = "updateRef",
                      ![p].rest = {}, ![p].calls = @ + 1]
  /\ UNCHANGED <<rq, lock, nextId, report, head, parents>>
  /\ UNCHANGED memSide

\* history: the entries of the list that are items of a batch whose ref
\* update has just been accepted get their done flag
MarkDone(list, ids) ==
  [k \in 1..Len(list) |->
     IF list[k].id \in ids THEN [list[k] EXCEPT !.done = TRUE] ELSE list[k]]

\* mutant of UpdateRef: updateRef with force: true, which moves the branch to
\* the new commit whatever it points to
UpdateRefForce(p) ==
  /\ pq[p].pc = "updateRef"
  /\ head < MaxHead
  /\ head' = head + 1
  /\ parents' = Append(parents, pq[p].currentCommitSha)
  /\ rq' = MarkDone(rq, Ids(pq[p].items))
  /\ pq' = [pq EXCEPT ![p].toPop = Len(pq[p].items),
                      ![p].currentCommitSha = 0,
                      ![p].updated = TRUE,
                      ![p].newCommit = head + 1,
                      ![p].pc = "remove"]
  /\ UNCHANGED <<lock, nextId, report>>
  /\ UNCHANGED memSide

\* mutant of UpdateRef: a rejected update does not stop the invocation, which
\* goes on to remove the items
UpdateRefUnchecked(p) ==
  /\ pq[p].pc = "updateRef"
  /\ IF head = pq[p].currentCommitSha
       THEN /\ head < MaxHead
            /\ head' = head + 1
            /\ parents' = Append(parents, pq[p].currentCommitSha)
            /\ rq' = MarkDone(rq, Ids(pq[p].items))
       ELSE UNCHANGED <<rq, head, parents>>
  /\ pq' = [pq EXCEPT ![p].toPop = Len(pq[p].items),
                      ![p].currentCommitSha = 0,
                      ![p].updated = (head = pq[p].currentCommitSha),
                      ![p].newCommit = head + 1,
                      ![p].pc = "remove"]
  /\ UNCHANGED <<lock, nextId, report>>
  /\ UNCHANGED memSide

\* octokit.git.updateRef without force: accepted iff the branch still points
\* to the commit's parent, rejected (an exception) otherwise
UpdateRef(p) ==
  /\ pq[p].pc = "updateRef"
  /\ IF head = pq[p].currentCommitSha
       THEN /\ head < MaxHead
            /\ head' = head + 1
            /\ parents' = Append(parents, pq[p].currentCommitSha)
            /\ rq' = MarkDone(rq, Ids(pq[p].items))
            /\ pq' = [pq EXCEPT ![p].toPop = Len(pq[p].items),
                                ![p].currentCommitSha = 0,
                                ![p].updated = TRUE,
                                ![p].newCommit = head + 1,
                                ![p].pc = "remove"]
       ELSE /\ pq' = [pq EXCEPT ![p] = [IdleInv EXCEPT !.pc = "rel_finally",
                                                        !.thrown = TRUE,
                                                        !.conflict = TRUE,
                                                        !.calls = pq[p].calls,
                                                        !.holds = pq[p].holds]]
            /\ UNCHANGED <<rq, head, parents>>
  /\ UNCHANGED <<lock, nextId, report>>
  /\ UNCHANGED memSide

\* mutant of RemoveItems: LPOP, which takes the entries away from the head
RemoveItemsFromHead(p) ==
  /\ pq[p].pc = "remove"
  /\ rq' = IF rq = <<>> THEN <<>> ELSE Tail(rq)
  /\ pq' = [pq EXCEPT ![p].popped = IF rq = <<>> THEN @ ELSE @ \cup {rq[1].id},
                      ![p].toPop = @ - 1,
                      ![p].ret = IF pq[p].toPop = 1
                                   THEN [batchSize |-> Len(pq[p].items),
                                         commitSha |-> pq[p].newCommit]
                                   ELSE @,
                      ![p].pc = IF pq[p].toPop = 1 THEN "rel_finally" ELSE "remove"]
  /\ UNCHANGED <<lock, nextId, report, head, parents>>
  /\ UNCHANGED memSide

\* removeItems(items.length): one RPOP per step; after the last one the
\* success report is returned through the finally block
RemoveItems(p) ==
  /\ pq[p].pc = "remove"
  /\ rq' = RPop(rq)
  /\ pq' = [pq EXCEPT ![p].popped =
                         IF rq = <<>> THEN @ ELSE @ \cup {rq[Len(rq)].id},
                      ![p].toPop = @ - 1,
                      ![p].ret = IF pq[p].toPop = 1
                                   THEN [batchSize |-> Len(pq[p].items),
                                         commitSha |-> pq[p].newCommit]
                                   ELSE @,
                      ![p].pc = IF pq[p].toPop = 1 THEN "rel_finally" ELSE "remove"]
  /\ UNCHANGED <<lock, nextId, report, head, parents>>
  /\ UNCHANGED memSide

\* mutant of ReleaseFinally: no finally block, the lock is left to the catch
\* block and to its expiry
ReleaseFinallyNoDel(p) ==
  /\ pq[p].pc = "rel_finally"
  /\ UNCHANGED lock
  /\ IF pq[p].thrown
       THEN /\ pq' = [pq EXCEPT ![p] = [IdleInv EXCEPT !.pc = "rel_catch",
                                                        !.holds = pq[p].holds]]
            /\ UNCHANGED report
       ELSE IF Len(pq[p].items) = 0 THEN Return(p, "empty")
            ELSE Return(p, "success")
  /\ UNCHANGED <<rq, nextId, head, parents>>
  /\ UNCHANGED memSide

\* finally { await redisQueue.releaseLock() }, then either the pending return
\* or the pending exception, which goes on to the outer catch
ReleaseFinally(p) ==
  /\ pq[p].pc = "rel_finally"
  /\ releaseLock
  /\ IF pq[p].thrown
       THEN /\ pq' = [pq EXCEPT ![p] = [IdleInv EXCEPT !.pc = "rel_catch"]]
            /\ UNCHANGED report
       ELSE IF Len(pq[p].items) = 0 THEN Return(p, "empty")
            ELSE Return(p, "success")
  /\ UNCHANGED <<rq, nextId, head, parents>>
  /\ UNCHANGED memSide

\* mutant of ReleaseCatch: the DEL of the catch block is not wrapped in a try
\* of its own, so its failure rejects the promise processQueue returned
ReleaseCatchUnguarded(p) ==
  /\ pq[p].pc = "rel_catch"
  /\ \/ releaseLock /\ Return(p, "failure")
     \/ UNCHANGED lock /\ Return(p, "rejected")
  /\ UNCHANGED <<rq, nextId, head, parents>>
  /\ UNCHANGED memSide

\* catch (error): await redisQueue.releaseLock() with its own errors
\* ignored, then the failure report
ReleaseCatch(p) ==
  /\ pq[p].pc = "rel_catch"
  /\ \/ releaseLock
     \/ UNCHANGED lock          \* the DEL itself failed
  /\ Return(p, "failure")
  /\ UNCHANGED <<rq, nextId, head, parents>>
  /\ UNCHANGED memSide

\* a Redis call made before the inner try throws: straight to the outer catch
ThrowOutsideTry(p) ==
  /\ pq[p].pc \in {"sp_size", "sp_exists", "size", "oldest", "acquire"}
  /\ pq' = [pq EXCEPT ![p] = [IdleInv EXCEPT !.pc = "rel_catch"]]
  /\ UNCHANGED <<rq, lock, nextId, report, head, parents>>
  /\ UNCHANGED memSide

\* a Redis or GitHub call made inside the inner try throws (the releaseLock
\* of the finally block included): the finally block, then the outer catch
ThrowInsideTry(p) ==
  /\ \/ /\ pq[p].pc \in {"fetch", "rel_empty", "getRef", "updateRef", "remove"}
        /\ pq' = [pq EXCEPT ![p] = [IdleInv EXCEPT !.pc = "rel_finally",
                                                   !.thrown = TRUE,
                                                   !.holds = pq[p].holds]]
     \/ /\ pq[p].pc = "rel_finally"
        /\ pq' = [pq EXCEPT ![p] = [IdleInv EXCEPT !.pc = "rel_catch",
                                                   !.holds = pq[p].holds]]
  /\ UNCHANGED <<rq, lock, nextId, report, head, parents>>
  /\ UNCHANGED memSide

processQueue(p) ==
  \/ PQ_Disabled(p)
  \/ PQ_Start(p)
  \/ ShouldProcessSize(p)
  \/ ShouldProcessExists(p)
  \/ PQ_Size(p)
  \/ PQ_Oldest(p)
  \/ AcquireLock(p)
  \/ GetItems(p)
  \/ ReleaseEmpty(p)
  \/ GetRef(p)
  \/ UpdateRef(p)
  \/ RemoveItems(p)
  \/ ReleaseFinally(p)
  \/ ReleaseCatch(p)
  \/ ThrowOutsideTry(p)
  \/ ThrowInsideTry(p)

\* a remote-store call of the commit sequence throws
ThrowRemote(p) ==
  /\ pq[p].pc \in {"getRef", "updateRef"}
  /\ ThrowInsideTry(p)

\* an RPOP of removeItems throws
ThrowRemoveItems(p) ==
  /\ pq[p].pc = "remove"
  /\ ThrowInsideTry(p)

\* the catch block when its DEL is answered
ReleaseCatchDone(p) ==
  /\ ReleaseCatch(p)
  /\ ~lock'

\* processQueue while every Redis call is answered and no one else pops: only
\* the remote store fails, and the list that passed shouldProcess is still
\* non-empty at getItems, so the empty-batch branch is not taken
processQueueAlone(p) ==
  \/ PQ_Disabled(p)
  \/ PQ_Start(p)
  \/ ShouldProcessSize(p)
  \/ ShouldProcessExists(p)
  \/ PQ_Size(p)
  \/ PQ_Oldest(p)
  \/ AcquireLock(p)
  \/ GetItems(p)
  \/ GetRef(p)
  \/ UpdateRef(p)
  \/ RemoveItems(p)
  \/ ReleaseFinally(p)
  \/ ReleaseCatchDone(p)
  \/ ThrowRemote(p)

\* processQueue while every Redis call is answered: only the remote store fails
processQueueRedisUp(p) ==
  \/ processQueueAlone(p)
  \/ ReleaseEmpty(p)

\* ============================================================ upload handler
\* POST up to the choice of the path: the validation of the form (400 without
\* touching anything), then the queued path if Redis is configured and the
\* environment is not serverless, the direct path otherwise
POST_Start ==
  /\ req.pc = "idle"
  /\ \E valid \in BOOLEAN :
       req' = IF ~valid THEN [NoRequest EXCEPT !.response = "invalid"]
              ELSE IF useRedis /\ ~serverless
                   THEN [NoRequest EXCEPT !.pc = "lpush"]
                   ELSE [NoRequest EXCEPT !.pc = "direct"]
  /\ UNCHANGED <<redisVars, memVars, head, parents, threshold, useRedis, serverless,
                 startVars>>

\* redisQueue.add: await redis.lpush(QUEUE_KEY, JSON.stringify(item))
POST_Lpush ==
  /\ req.pc = "lpush"
  /\ nextId < MaxAdds
  /\ \E s \in Sizes :
       rq' = LPush(rq, [id |-> nextId + 1, size |-> s, ok |-> TRUE, old |-> FALSE,
                        done |-> FALSE])
  /\ nextId' = nextId + 1
  /\ req' = [req EXCEPT !.pc = "llen", !.id = nextId + 1]
  /\ UNCHANGED <<lock, pq, report>>
  /\ UNCHANGED <<memVars, head, parents, threshold, useRedis, serverless,
                 startVars>>

\* redisQueue.add: await redis.llen(QUEUE_KEY), then at the threshold the
\* fire-and-forget fetch of the processing trigger, whose failure (thrown or
\* rejected) is only logged
POST_Llen ==
  /\ req.pc = "llen"
  /\ IF Len(rq) >= threshold
       THEN \E outcome \in {"sent", "failed"} :
              req' = [req EXCEPT !.pc = "size", !.trigger = outcome]
       ELSE req' = [req EXCEPT !.pc = "size"]
  /\ UNCHANGED <<redisVars, memVars, head, parents, threshold, useRedis, serverless,
                 startVars>>

\* mutant of POST_Size: the trigger is awaited and its failure propagates
POST_SizeAwaitsTrigger ==
  /\ req.pc = "size"
  /\ \E outcome \in {"sent", "failed"} :
       req' = [req EXCEPT !.pc = "idle", !.trigger = outcome,
                          !.failed = IF outcome = "failed" THEN "trigger" ELSE "none",
                          !.response = IF outcome = "failed" THEN "error" ELSE "queued"]
  /\ UNCHANGED <<redisVars, memVars, head, parents, threshold, useRedis, serverless,
                 startVars>>

\* const queueSize = await redisQueue.size(), then the fire-and-forget
\* trigger of the processor, whatever becomes of it, and the optimistic
\* "queued" response with the predicted URLs
POST_Size ==
  /\ req.pc = "size"
  /\ \E outcome \in {"sent", "failed"} :
       req' = [req EXCEPT !.pc = "idle", !.trigger = outcome,
                          !.response = "queued"]
  /\ UNCHANGED <<redisVars, memVars, head, parents, threshold, useRedis, serverless,
                 startVars>>

\* a Redis call of the queued path throws: the outer catch answers 500
POST_Throw ==
  /\ req.pc \in {"lpush", "llen", "size"}
  /\ req' = [req EXCEPT !.pc = "idle", !.failed = req.pc, !.response = "error"]
  /\ UNCHANGED <<redisVars, memVars, head, parents, threshold, useRedis, serverless,
                 startVars>>

\* directUpload: createOrUpdateFileContents (one commit for the file), retried
\* on 409 up to maxRetries times; its result, or the 500 of the outer catch
POST_Direct ==
  /\ req.pc = "direct"
  /\ \/ /\ head < MaxHead
        /\ head' = head + 1
        /\ parents' = Append(parents, head)
        /\ req' = [req EXCEPT !.pc = "idle", !.response = "direct"]
     \/ /\ UNCHANGED <<head, parents>>
        /\ req' = [req EXCEPT !.pc = "idle", !.failed = "direct",
                              !.response = "error"]
  /\ UNCHANGED <<redisVars, memVars, threshold, useRedis, serverless,
                 startVars>>

POST ==
  \/ POST_Start
  \/ POST_Lpush
  \/ POST_Llen
  \/ POST_Size
  \/ POST_Throw
  \/ POST_Direct

\* ===================================================== in-memory UploadQueue
NoError == [status |-> 0, call |-> 0]

\* the fields of a new UploadQueue, and the locals of processBatch
InitUq ==
  [queue |-> <<>>,             \* this.queue
   timer |-> FALSE,            \* this.timer is a handle (not null)
   pending |-> FALSE,          \* the timeout of that handle has yet to fire
   processing |-> FALSE,       \* this.processing
   processingLock |-> FALSE,   \* this.processingLock
   pc |-> "idle",              \* where the running processBatch is suspended
   batch |-> <<>>,             \* const batch
   retries |-> 0,              \* let retries
   calls |-> 0,                \* history: uploadBatch invocations for this batch
   caught |-> NoError,         \* history: the error the inner catch caught last
   currentCommitSha |-> 0]     \* uploadBatch: refData.object.sha

\* no flush has finished yet
NoFlush ==
  [batch |-> <<>>,       \* the batch of the flush
   ok |-> FALSE,         \* it ended in the resolve loop, not in the reject loop
   calls |-> 0,          \* uploadBatch invocations made for it
   results |-> <<>>,     \* what the last uploadBatch call returned, if it returned
   error |-> NoError,    \* the error the outer catch caught, if it caught one
   given |-> <<>>]       \* what the callback of each item was called with

InitMem ==
  /\ uq = InitUq
  /\ memNext = 0
  /\ resolved = [x \in 1..MaxMemAdds |-> 0]
  /\ rejected = [x \in 1..MaxMemAdds |-> 0]
  /\ last = NoFlush

\* mutant of startTimer: no timeout is set
startTimerNotArmed(st) == st

\* startTimer: clearTimeout of a previous handle, then setTimeout
startTimer(st) == [st EXCEPT !.timer = TRUE, !.pending = TRUE]

\* mutant of processBatch: the batch is copied (slice), not removed (splice)
processBatchNoSplice(st) ==
  IF st.processingLock THEN st
  ELSE IF Len(st.queue) = 0 THEN st
  ELSE [st EXCEPT !.processingLock = TRUE,
                  !.processing = TRUE,
                  !.timer = FALSE,
                  !.pending = FALSE,
                  !.batch = SubSeq(st.queue, 1, Min(MAX_BATCH_SIZE, Len(st.queue))),
                  !.retries = 0,
                  !.calls = 1,
                  !.pc = "getRef"]

\* mutant of processBatch: no processingLock test
processBatchNoGuard(st) ==
  IF Len(st.queue) = 0 THEN st
  ELSE LET n == Min(MAX_BATCH_SIZE, Len(st.queue)) IN
       [st EXCEPT !.processingLock = TRUE,
                  !.processing = TRUE,
                  !.timer = FALSE,
                  !.pending = FALSE,
                  !.batch = SubSeq(st.queue, 1, n),
                  !.queue = SubSeq(st.queue, n + 1, Len(st.queue)),
                  !.retries = 0,
                  !.calls = 1,
                  !.pc = "getRef"]

\* processBatch up to its first await: the two guards, the lock, the timer
\* and the splice; uploadBatch is entered and suspends at its getRef
processBatch(st) ==
  IF st.processingLock THEN st
  ELSE IF Len(st.queue) = 0 THEN st
  ELSE LET n == Min(MAX_BATCH_SIZE, Len(st.queue)) IN
       [st EXCEPT !.processingLock = TRUE,
                  !.processing = TRUE,
                  !.timer = FALSE,
                  !.pending = FALSE,
                  !.batch = SubSeq(st.queue, 1, n),
                  !.queue = SubSeq(st.queue, n + 1, Len(st.queue)),
                  !.retries = 0,
                  !.calls = 1,
                  !.pc = "getRef"]

\* mutant of add: without the "batch is full" test
addThresholdOnly(st, item, autoSubmit) ==
  LET s1 == [st EXCEPT !.queue = Append(@, item)]
      s2 == IF Len(s1.queue) >= autoSubmit THEN processBatch(s1) ELSE s1
  IN  IF Len(s2.queue) = 1 /\ ~s2.timer /\ ~s2.processing
        THEN startTimer(s2) ELSE s2

\* the executor of add's promise
add(st, item, autoSubmit) ==
  LET s1 == [st EXCEPT !.queue = Append(@, item)]
      s2 == IF Len(s1.queue) >= autoSubmit THEN processBatch(s1) ELSE s1
      s3 == IF Len(s2.queue) = 1 /\ ~s2.timer /\ ~s2.processing
              THEN startTimer(s2) ELSE s2
  IN  IF Len(s3.queue) >= MAX_BATCH_SIZE THEN processBatch(s3) ELSE s3

\* mutant of finallyBlock: the timer is not started for the remaining items
finallyBlockNoRestart(st) ==
  [st EXCEPT !.processingLock = FALSE, !.processing = FALSE,
             !.pc = "idle", !.batch = <<>>, !.retries = 0,
             !.calls = 0, !.caught = NoError,
             !.currentCommitSha = 0]

\* the finally block of processBatch
finallyBlock(st) ==
  LET s1 == [st EXCEPT !.processingLock = FALSE, !.processing = FALSE,
                       !.pc = "idle", !.batch = <<>>, !.retries = 0,
                       !.calls = 0, !.caught = NoError,
                       !.currentCommitSha = 0]
  IN  IF Len(s1.queue) > 0 THEN startTimer(s1) ELSE s1

\* mutant of Results: the results come back in reverse order
ResultsReversed(batch, sha) ==
  [k \in 1..Len(batch) |->
     [filename |-> batch[Len(batch) + 1 - k], commit_sha |-> sha,
      batch_size |-> Len(batch)]]

\* uploadBatch's return value: batch.map(item => ({filename, commit_sha,
\* batch_size, ...}))
Results(batch, sha) ==
  [k \in 1..Len(batch) |->
     [filename |-> batch[k], commit_sha |-> sha, batch_size |-> Len(batch)]]

\* batch.forEach(...): every item's callback counted once per call
RECURSIVE Settle(_, _, _)
Settle(count, batch, k) ==
  IF k > Len(batch) THEN count
  ELSE Settle([count EXCEPT ![batch[k]] = @ + 1], batch, k + 1)

\* batch.forEach((item, index) => item.resolve(results[index])): the calls
\* counted, and the values passed in batch order
ResolveAll(count, batch) == Settle(count, batch, 1)
ResolveArgs(batch, results) == [k \in 1..Len(batch) |-> results[k]]

\* mutant of RejectAll: only the first item of the batch is rejected
RejectFirstOnly(count, batch) ==
  IF Len(batch) = 0 THEN count ELSE [count EXCEPT ![batch[1]] = @ + 1]

\* batch.forEach((item) => item.reject(error)): the calls counted, and the
\* values passed
RejectAll(count, batch) == Settle(count, batch, 1)
RejectArgs(batch, error) == [k \in 1..Len(batch) |-> error]

\* mutant of Retryable: one retry too many
RetryableOffByOne(status, retries) ==
  (status = 422 \/ status = 409) /\ retries <= maxRetries

\* mutant of Retryable: every error is retried, whatever its status
RetryableAnyStatus(status, retries) == retries < maxRetries

\* the test of the inner catch: retry or rethrow
Retryable(status, retries) ==
  (status = 422 \/ status = 409) /\ retries < maxRetries

\* UploadQueue.add, called by an upload request
UQ_Add ==
  /\ memNext < MaxMemAdds
  /\ memNext' = memNext + 1
  /\ uq' = add(uq, memNext + 1, threshold)
  /\ UNCHANGED <<resolved, rejected, last, head, parents>>
  /\ UNCHANGED redisSide

\* the callback of the batch timer
UQ_Timer ==
  /\ uq.pending
  /\ uq' = processBatch([uq EXCEPT !.pending = FALSE])
  /\ UNCHANGED <<memNext, resolved, rejected, last, head, parents>>
  /\ UNCHANGED redisSide

\* processNow
UQ_ProcessNow ==
  /\ uq' = processBatch(uq)
  /\ UNCHANGED <<memNext, resolved, rejected, last, head, parents>>
  /\ UNCHANGED redisSide

\* uploadBatch: getRef, then getCommit, createBlob for every item, createTree
\* and createCommit
UploadBatchGetRef ==
  /\ uq.pc = "getRef"
  /\ uq' = [uq EXCEPT !.currentCommitSha = head, !.pc = "updateRef"]
  /\ UNCHANGED <<memNext, resolved, rejected, last, head, parents>>
  /\ UNCHANGED redisSide

\* the outcome of an uploadBatch call that threw error: either the retry
\* branch of the inner catch, or the outer catch and the finally block
Caught(error) ==
  IF Retryable(error.status, uq.retries)
  THEN /\ uq' = [uq EXCEPT !.retries = @ + 1, !.pc = "backoff",
                           !.caught = error, !.currentCommitSha = 0]
       /\ UNCHANGED <<resolved, rejected, last>>
  ELSE /\ rejected' = RejectAll(rejected, uq.batch)
       /\ last' = [batch |-> uq.batch, ok |-> FALSE, calls |-> uq.calls,
                   results |-> <<>>, error |-> error,
                   given |-> RejectArgs(uq.batch, error)]
       /\ uq' = finallyBlock(uq)
       /\ UNCHANGED resolved

\* uploadBatch: updateRef with force: false; on success the results are
\* returned, every item is resolved and the finally block runs
UploadBatchUpdateRef ==
  /\ uq.pc = "updateRef"
  /\ IF head = uq.currentCommitSha
       THEN /\ head < MaxHead
            /\ head' = head + 1
            /\ parents' = Append(parents, uq.currentCommitSha)
            /\ LET results == Results(uq.batch, head + 1) IN
                 /\ resolved' = ResolveAll(resolved, uq.batch)
                 /\ last' = [batch |-> uq.batch, ok |-> TRUE,
                             calls |-> uq.calls, results |-> results,
                             error |-> NoError,
                             given |-> ResolveArgs(uq.batch, results)]
            /\ uq' = finallyBlock(uq)
            /\ UNCHANGED rejected
       ELSE /\ Caught([status |-> 422, call |-> uq.calls])
            /\ UNCHANGED <<head, parents>>
  /\ UNCHANGED memNext
  /\ UNCHANGED redisSide

\* a remote call of uploadBatch fails with some status
UploadBatchThrow ==
  /\ uq.pc \in {"getRef", "updateRef"}
  /\ \E status \in Statuses : Caught([status |-> status, call |-> uq.calls])
  /\ UNCHANGED <<memNext, head, parents>>
  /\ UNCHANGED redisSide

\* the backoff timeout of the retry loop ends: uploadBatch is called again
Backoff ==
  /\ uq.pc = "backoff"
  /\ uq' = [uq EXCEPT !.pc = "getRef", !.calls = @ + 1]
  /\ UNCHANGED <<memNext, resolved, rejected, last, head, parents>>
  /\ UNCHANGED redisSide

UploadQueue ==
  \/ UQ_Add
  \/ UQ_Timer
  \/ UQ_ProcessNow
  \/ UploadBatchGetRef
  \/ UploadBatchUpdateRef
  \/ UploadBatchThrow
  \/ Backoff

\* ============================================== configuration and environment
\* the value of a variable that is not set (strings are sequences of
\* characters, which this one is not)
undefined == <<"undefined">>

\* JavaScript's truthiness of a string or undefined
Truthy(v) == v # undefined /\ v # <<>>

Digits == <<"0", "1", "2", "3", "4", "5", "6", "7", "8", "9">>
IsDigit(c) == \E k \in 1..10 : Digits[k] = c
DigitValue(c) == (CHOOSE k \in 1..10 : Digits[k] = c) - 1

\* the decimal numeral of a natural number (template literal, String(n))
RECURSIVE NumberToString(_)
NumberToString(n) ==
  IF n < 10 THEN <<Digits[n + 1]>>
  ELSE Append(NumberToString(n \div 10), Digits[(n % 10) + 1])

RECURSIVE SkipWhite(_)
SkipWhite(str) ==
  IF str # <<>> /\ Head(str) = " " THEN SkipWhite(Tail(str)) ELSE str

RECURSIVE DigitPrefix(_, _)
DigitPrefix(str, acc) ==
  IF str # <<>> /\ IsDigit(Head(str))
    THEN DigitPrefix(Tail(str), 10 * acc + DigitValue(Head(str)))
    ELSE acc

NaN == [nan |-> TRUE, value |-> 0]

\* parseInt(str, 10): leading white space is skipped, then an optional sign,
\* then the longest run of decimal digits; whatever follows is ignored, and
\* the result is NaN when there is no digit at that place
parseInt(str) ==
  LET s1 == SkipWhite(str)
      neg == s1 # <<>> /\ Head(s1) = "-"
      s2 == IF s1 # <<>> /\ Head(s1) \in {"-", "+"} THEN Tail(s1) ELSE s1
  IN  IF s2 = <<>> \/ ~IsDigit(Head(s2)) THEN NaN
      ELSE [nan |-> FALSE,
            value |-> IF neg THEN 0 - DigitPrefix(s2, 0) ELSE DigitPrefix(s2, 0)]

serverlessVars ==
  {"VERCEL", "AWS_LAMBDA_FUNCTION_NAME", "FUNCTIONS_WORKER_RUNTIME",
   "K_SERVICE", "GCP_PROJECT", "GCLOUD_PROJECT"}

EnvNames == serverlessVars \cup {"AUTO_SUBMIT_THRESHOLD"}

\* a Node.js server with none of the variables set: no Deno, a global fetch,
\* a process object ("absent": no process object, "bare": one without env)
Node ==
  [Deno |-> FALSE, fetch |-> TRUE, process |-> "node",
   env |-> [v \in EnvNames |-> undefined]]

\* process.env[v], undefined where there is no process.env
Getenv(h, v) == IF h.process = "node" THEN h.env[v] ELSE undefined

\* mutant of getAutoSubmitThreshold: without the test parsed > 0
getAutoSubmitThresholdAnySign(h) ==
  LET raw == Getenv(h, "AUTO_SUBMIT_THRESHOLD")
      parsed == parseInt(raw)
  IN  IF Truthy(raw) /\ ~parsed.nan THEN parsed.value ELSE DefaultThreshold

getAutoSubmitThreshold(h) ==
  LET raw == Getenv(h, "AUTO_SUBMIT_THRESHOLD")
      parsed == parseInt(raw)
  IN  IF Truthy(raw) /\ ~parsed.nan /\ parsed.value > 0
        THEN parsed.value
        ELSE DefaultThreshold

\* mutant of isServerlessEnvironment: a global fetch is enough
isServerlessEnvironmentAnyFetch(h) ==
  IF h.Deno THEN TRUE
  ELSE IF h.fetch THEN TRUE
  ELSE IF h.process = "node" /\ \E v \in serverlessVars : Truthy(h.env[v])
         THEN TRUE
  ELSE FALSE

\* the three tests in their order; nothing in the try block throws for a
\* host of this shape, so the catch is not entered
isServerlessEnvironment(h) ==
  IF h.Deno THEN TRUE
  ELSE IF h.fetch /\ h.process = "absent" THEN TRUE
  ELSE IF h.process = "node" /\ \E v \in serverlessVars : Truthy(h.env[v])
         THEN TRUE
  ELSE FALSE

\* the two values have been computed from host (the modules are evaluated)
Started == loaded = {"threshold", "serverless"}

\* redisQueue.getItems(MAX_BATCH_SIZE, 100 * 1024 * 1024) in processQueue
ProcessQueueArgs ==
  getItemsArgs = [maxItems |-> MAX_BATCH_SIZE, maxBytes |-> BatchByteBudget]

\* no commit is being built
NoCommit == batchNames = <<>> /\ commitMessage = <<>>

\* ============================================================ specifications
NextShared ==
  \/ RedisAdd
  \/ Elapse
  \/ LockExpire
  \/ OtherWriter
  \/ \E p \in Procs : processQueue(p)

\* the deployment with the Redis queue: processes sharing list, lock and branch
Init ==
  /\ InitShared
  /\ InitMem
  /\ InitUpload
  /\ head = 0
  /\ parents = <<>>
  /\ useRedis = TRUE
  /\ serverless \in BOOLEAN
  /\ threshold = DefaultThreshold
  /\ host = [Node EXCEPT !.env["VERCEL"] =
                           IF serverless THEN <<"1">> ELSE undefined]
  /\ Started
  /\ ProcessQueueArgs
  /\ NoCommit

Next == NextShared

Spec == Init /\ [][Next]_vars

\* the deployment without Redis: one process with its in-memory queue
InitMemory ==
  /\ InitShared
  /\ InitMem
  /\ InitUpload
  /\ head = 0
  /\ parents = <<>>
  /\ useRedis = FALSE
  /\ serverless = FALSE
  /\ threshold \in 1..MaxThreshold
  /\ host = [Node EXCEPT !.env["AUTO_SUBMIT_THRESHOLD"] = NumberToString(threshold)]
  /\ Started
  /\ ProcessQueueArgs
  /\ NoCommit

NextMem ==
  \/ UploadQueue
  \/ OtherWriter

SpecMem == InitMemory /\ [][NextMem]_vars

\* one call of uploadBatch runs on: a remote call answers or throws
UploadBatchStep ==
  \/ UploadBatchGetRef
  \/ UploadBatchUpdateRef
  \/ UploadBatchThrow

\* the in-memory deployment where the event loop runs what it scheduled:
\* a timeout that stays set fires (the batch timer, the backoff wait), and
\* an awaited remote call of uploadBatch comes back
SpecMemFair ==
  /\ SpecMem
  /\ WF_vars(UQ_Timer)
  /\ WF_vars(UploadBatchStep)
  /\ WF_vars(Backoff)

\* the Redis deployment when no flush outlasts LOCK_TIMEOUT: the lock key
\* disappears only by releaseLock
NextNoExpiry ==
  \/ RedisAdd
  \/ Elapse
  \/ OtherWriter
  \/ \E p \in Procs : processQueue(p)

SpecNoExpiry == Init /\ [][NextNoExpiry]_vars

\* the Redis deployment while Redis answers every call
NextRemoteFaults ==
  \/ RedisAdd
  \/ Elapse
  \/ LockExpire
  \/ OtherWriter
  \/ \E p \in Procs : processQueueRedisUp(p)

SpecRemoteFaults == Init /\ [][NextRemoteFaults]_vars

\* the Redis deployment while Redis answers every call but, now and then, an
\* RPOP of removeItems
NextTransient ==
  \/ NextRemoteFaults
  \/ \E p \in Procs : ThrowRemoveItems(p)

SpecTransient == Init /\ [][NextTransient]_vars

\* the Redis deployment with one process invoking processQueue, Redis
\* answering every call and no flush outlasting LOCK_TIMEOUT
Solo == CHOOSE p \in Procs : TRUE

NextSolo ==
  \/ RedisAdd
  \/ Elapse
  \/ OtherWriter
  \/ processQueueAlone(Solo)

SpecSolo == Init /\ [][NextSolo]_vars

\* the same, the invocation going on after each of its awaits
SpecSoloFair == SpecSolo /\ WF_vars(processQueueAlone(Solo))

\* the upload handler, whose Redis calls may fail, next to one process
\* invoking processQueue
NextUpload ==
  \/ POST
  \/ Elapse
  \/ OtherWriter
  \/ processQueueAlone(Solo)

SpecUpload == Init /\ [][NextUpload]_vars

\* either deployment
InitAll ==
  /\ InitShared
  /\ InitMem
  /\ InitUpload
  /\ head = 0
  /\ parents = <<>>
  /\ useRedis \in BOOLEAN
  /\ serverless \in BOOLEAN
  /\ threshold = DefaultThreshold
  /\ host = [Node EXCEPT !.env["VERCEL"] =
                           IF serverless THEN <<"1">> ELSE undefined]
  /\ Started
  /\ ProcessQueueArgs
  /\ NoCommit

NextAll ==
  \/ useRedis /\ NextShared
  \/ ~useRedis /\ NextMem
  \/ ~useRedis /\ \E p \in Procs : processQueue(p)

SpecAll == InitAll /\ [][NextAll]_vars

\* start-up: the module constants are computed from the host, for every
\* value of AUTO_SUBMIT_THRESHOLD up to MaxRawLen characters on a Node.js
\* server and for every shape of the runtime
RawChars == {"0", "1", "2", "7", "-", "+", " ", "x", "."}
RawValues == UNION {[1..n -> RawChars] : n \in 0..MaxRawLen}
VarValues == {undefined, <<>>, <<"1">>}

Hosts ==
  {[Node EXCEPT !.env["AUTO_SUBMIT_THRESHOLD"] = raw] : raw \in RawValues}
  \cup
  {[Deno |-> d, fetch |-> f, process |-> "node",
    env |-> [v \in EnvNames |->
               IF v \in serverlessVars THEN e[v] ELSE undefined]] :
     d \in BOOLEAN, f \in BOOLEAN, e \in [serverlessVars -> VarValues]}
  \cup
  {[Node EXCEPT !.Deno = d, !.fetch = f, !.process = p] :
     d \in BOOLEAN, f \in BOOLEAN, p \in {"absent", "bare"}}

\* before the modules are evaluated threshold and serverless hold nothing:
\* 0 and FALSE stand for that
InitStartup ==
  /\ InitShared
  /\ InitMem
  /\ InitUpload
  /\ head = 0
  /\ parents = <<>>
  /\ useRedis = TRUE
  /\ host \in Hosts
  /\ loaded = {}
  /\ ProcessQueueArgs
  /\ threshold = 0
  /\ serverless = FALSE
  /\ NoCommit

\* const AUTO_SUBMIT_THRESHOLD = getAutoSubmitThreshold()
LoadThreshold ==
  /\ "threshold" \notin loaded
  /\ threshold' = getAutoSubmitThreshold(host)
  /\ loaded' = loaded \cup {"threshold"}
  /\ UNCHANGED <<redisVars, memVars, head, parents, useRedis, serverless, req,
                 host, batchNames, commitMessage, getItemsArgs>>

\* const isServerless = isServerlessEnvironment()
DetectServerless ==
  /\ "serverless" \notin loaded
  /\ serverless' = isServerlessEnvironment(host)
  /\ loaded' = loaded \cup {"serverless"}
  /\ UNCHANGED <<redisVars, memVars, head, parents, useRedis, threshold, req,
                 host, batchNames, commitMessage, getItemsArgs>>

NextStartup ==
  \/ LoadThreshold
  \/ DetectServerless

SpecStartup == InitStartup /\ [][NextStartup]_vars

\* the upload route that tests one provider variable only:
\* const isServerless = process.env.VERCEL === "1"
isVercel(h) == Getenv(h, "VERCEL") = <<"1">>

\* POST of that route up to the choice of the path: reading process.env
\* where there is none throws before the try block is entered; then the
\* validation of the form, and the queued path if Redis is configured and
\* VERCEL is not "1", the direct path otherwise. From there on the route
\* makes the calls of the other one (add, size, trigger, response)
POST_StartVercel ==
  /\ req.pc = "idle"
  /\ IF host.process # "node"
       THEN req' = [NoRequest EXCEPT !.failed = "env", !.response = "error"]
       ELSE \E valid \in BOOLEAN :
              req' = IF ~valid THEN [NoRequest EXCEPT !.response = "invalid"]
                     ELSE IF useRedis /\ ~isVercel(host)
                          THEN [NoRequest EXCEPT !.pc = "lpush"]
                          ELSE [NoRequest EXCEPT !.pc = "direct"]
  /\ UNCHANGED <<redisVars, memVars, head, parents, threshold, useRedis, serverless,
                 startVars>>

\* the environments of a deployment: the shape of the runtime, and two of
\* the provider variables on a runtime with process.env
GatingHosts ==
  {[Deno |-> d, fetch |-> f, process |-> "node",
    env |-> [v \in EnvNames |->
               IF v = "VERCEL" THEN a
               ELSE IF v = "AWS_LAMBDA_FUNCTION_NAME" THEN b
               ELSE undefined]] :
     d \in BOOLEAN, f \in BOOLEAN, a \in VarValues, b \in {undefined, <<"f">>}}
  \cup
  {[Node EXCEPT !.Deno = d, !.fetch = f, !.process = "absent"] :
     d \in BOOLEAN, f \in BOOLEAN}

\* a deployment in any of these environments, with or without Redis
\* credentials, after its modules were evaluated
InitGating ==
  /\ InitShared
  /\ InitMem
  /\ InitUpload
  /\ head = 0
  /\ parents = <<>>
  /\ useRedis \in BOOLEAN
  /\ host \in GatingHosts
  /\ threshold = getAutoSubmitThreshold(host)
  /\ serverless = isServerlessEnvironment(host)
  /\ Started
  /\ ProcessQueueArgs
  /\ NoCommit

\* both upload routes next to one process invoking processQueue
NextGating ==
  \/ POST
  \/ POST_StartVercel
  \/ Elapse
  \/ OtherWriter
  \/ processQueueAlone(Solo)

SpecGating == InitGating /\ [][NextGating]_vars

\* ----------------------------------------------------------- commit message
\* batch.map(item => item.file.name).join(", "): a string is a sequence of
\* characters
RECURSIVE Join(_)
Join(names) ==
  IF Len(names) = 0 THEN <<>>
  ELSE IF Len(names) = 1 THEN names[1]
  ELSE names[1] \o <<",", " ">> \o Join(Tail(names))

\* str.substring(0, end)
Substring(str, end) == SubSeq(str, 1, Min(end, Len(str)))

\* mutant of BuildCommitMessage: the ellipsis is added from MessageLimit
\* characters on
BuildCommitMessageOffByOne(names) ==
  LET fileNames == Join(names) IN
    IF Len(names) = 1
      THEN <<"Upload image: ">> \o fileNames
      ELSE <<"Batch upload ">> \o NumberToString(Len(names)) \o <<" images: ">>
           \o Substring(fileNames, MessageLimit)
           \o (IF Len(fileNames) >= MessageLimit THEN <<".", ".", ".">> ELSE <<>>)

\* const commitMessage = batch.length === 1 ? ... : ...; the two literal
\* prefixes are one element each, everything else is one element per character
BuildCommitMessage(names) ==
  LET fileNames == Join(names) IN
    IF Len(names) = 1
      THEN <<"Upload image: ">> \o fileNames
      ELSE <<"Batch upload ">> \o NumberToString(Len(names)) \o <<" images: ">>
           \o Substring(fileNames, MessageLimit)
           \o (IF Len(fileNames) > MessageLimit THEN <<".", ".", ".">> ELSE <<>>)

\* file names of one to three characters, and the batches of them
FileNames ==
  {<<"a">>, <<"b">>, <<"c", "d">>, <<"e", "f", "g">>, <<"h", ".", "p">>}
Batches == UNION {[1..n -> FileNames] : n \in 1..MAX_BATCH_SIZE}

\* a flush that has its batch and is about to build the commit, in either
\* deployment
InitMessage ==
  /\ InitShared
  /\ InitMem
  /\ InitUpload
  /\ head = 0
  /\ parents = <<>>
  /\ useRedis \in BOOLEAN
  /\ serverless = FALSE
  /\ threshold = DefaultThreshold
  /\ host = Node
  /\ Started
  /\ ProcessQueueArgs
  /\ batchNames \in Batches
  /\ commitMessage = <<>>

\* uploadBatch of the in-memory queue builds the message
UploadBatchMessage ==
  /\ ~useRedis
  /\ commitMessage = <<>>
  /\ commitMessage' = BuildCommitMessage(batchNames)
  /\ UNCHANGED <<redisVars, memVars, head, parents, threshold, useRedis,
                 serverless, req, host, loaded, batchNames, getItemsArgs>>

\* processQueue builds the message (the same expression, on originalName)
ProcessQueueMessage ==
  /\ useRedis
  /\ commitMessage = <<>>
  /\ commitMessage' = BuildCommitMessage(batchNames)
  /\ UNCHANGED <<redisVars, memVars, head, parents, threshold, useRedis,
                 serverless, req, host, loaded, batchNames, getItemsArgs>>

NextMessage ==
  \/ UploadBatchMessage
  \/ ProcessQueueMessage

SpecMessage == InitMessage /\ [][NextMessage]_vars

\* getItems on its own: one invocation holds the lock and is about to fetch,
\* nothing else touches the list; every list up to MaxListLen entries of
\* sizes 1 to 3, parseable or not, and every pair of limits
EntrySizes == {1, 2, 3}
Lists ==
  UNION {{[k \in 1..n |-> [id |-> n + 1 - k, size |-> f[k][1], ok |-> f[k][2],
                           old |-> FALSE, done |-> FALSE]] :
            f \in [1..n -> EntrySizes \X BOOLEAN]} : n \in 0..MaxListLen}

InitGetItems ==
  /\ rq \in Lists
  /\ nextId = Len(rq)
  /\ lock = TRUE
  /\ pq = [p \in Procs |->
             IF p = Solo
               THEN [IdleInv EXCEPT !.pc = "fetch", !.holds = TRUE,
                                    !.shouldProcess = TRUE]
               ELSE IdleInv]
  /\ report = [p \in Procs |-> "none"]
  /\ InitMem
  /\ InitUpload
  /\ head = 0
  /\ parents = <<>>
  /\ useRedis = TRUE
  /\ serverless = FALSE
  /\ threshold = DefaultThreshold
  /\ host = Node
  /\ Started
  /\ NoCommit
  /\ getItemsArgs \in [maxItems : 1..MaxItemsArg, maxBytes : 1..MaxBytesArg]

NextGetItems == GetItems(Solo)

SpecGetItems == InitGetItems /\ [][NextGetItems]_vars

\* ==================================================================== claims
\* positions of processQueue between a successful acquireLock and its first
\* release of the lock: fetching, committing, removing
FlushPcs == {"fetch", "getRef", "updateRef", "remove"}
\* positions of processQueue before acquireLock has returned
BeforeLockPcs == {"idle", "sp_size", "sp_exists", "size", "oldest", "acquire"}
InBatch(x, batch) == \E k \in 1..Len(batch) : batch[k] = x
IsConflict(error) == error.status \in {409, 422}

\* C1: at most one processQueue invocation at a time is between its
\* successful acquireLock and its release of the lock (fetching, committing
\* or removing).
C1_MutualExclusion ==
  Cardinality({p \in Procs : pq[p].pc \in FlushPcs}) <= 1

\* C2: every entry processQueue pops after a successful ref update is an
\* item of the batch it has just committed.
C2_PoppedWereCommitted ==
  \A p \in Procs : pq[p].popped \subseteq Ids(pq[p].items)

\* C4: acquireLock returns true exactly when the lock key is absent and then
\* sets it (so of two racing callers one wins); an invocation whose
\* acquireLock returned false returns at once, having popped nothing and
\* committed nothing.
C4_LockRace ==
  /\ [][\A p \in Procs :
          pq[p].pc = "acquire" /\ pq'[p].pc \in {"fetch", "idle"} =>
            /\ (pq'[p].pc = "fetch") = ~lock
            /\ lock'
            /\ lock => /\ report'[p] = "contended"
                       /\ UNCHANGED <<rq, head>>]_vars
  /\ [](\A p \in Procs :
          pq[p].pc \in BeforeLockPcs => pq[p].popped = {} /\ pq[p].items = <<>>)

\* C4 witness: one process was turned away while the other is in its flush
C4_Witness ==
  \E p, q \in Procs :
    /\ report[p] = "contended"
    /\ pq[p].pc = "idle"
    /\ pq[q].pc \in FlushPcs
    /\ lock

\* C5: no batch has more than MAX_BATCH_SIZE items: neither the batch the
\* in-memory flush splices off, nor the items getItems returns.
C5_BatchBound ==
  /\ Len(uq.batch) <= MAX_BATCH_SIZE
  /\ \A p \in Procs : Len(pq[p].items) <= MAX_BATCH_SIZE

\* C5 witness: an in-memory flush took a full batch and left items behind
C5_Witness ==
  /\ Len(uq.batch) = MAX_BATCH_SIZE
  /\ Len(uq.queue) > 0

\* C7: when getItems returns, every item it fetched was enqueued before every
\* entry it left in the list.
C7_FetchedAreOldest ==
  \A p \in Procs :
    \A f \in Ids(pq[p].items) : \A u \in pq[p].rest : f < u

\* C3: every item passed to add is either still waiting (in the queue or in
\* the batch in flight, no callback called) or settled by exactly one
\* callback call; and the items of the flush that finished last got the
\* callback of that flush's outcome.
C3_ExactlyOnce ==
  /\ \A x \in 1..MaxMemAdds :
       /\ x > memNext => resolved[x] = 0 /\ rejected[x] = 0
       /\ x <= memNext =>
            IF InBatch(x, uq.queue) \/ InBatch(x, uq.batch)
            THEN resolved[x] + rejected[x] = 0
            ELSE resolved[x] + rejected[x] = 1
  /\ \A k \in 1..Len(last.batch) :
       /\ resolved[last.batch[k]] = (IF last.ok THEN 1 ELSE 0)
       /\ rejected[last.batch[k]] = (IF last.ok THEN 0 ELSE 1)

\* C3 witness: two flushes are over, one resolved and one rejected, and a
\* further item waits
C3_Witness ==
  /\ \E x, y \in 1..MaxMemAdds : resolved[x] = 1 /\ rejected[y] = 1
  /\ Len(uq.queue) > 0
  /\ uq.pc = "idle"

\* C6: a successful flush has one result per item, result k is that of item
\* k, and item k's resolve is called with result k.
C6_PositionalResults ==
  last.ok =>
    /\ Len(last.results) = Len(last.batch)
    /\ Len(last.given) = Len(last.batch)
    /\ \A k \in 1..Len(last.batch) :
         /\ last.results[k].filename = last.batch[k]
         /\ last.results[k].batch_size = Len(last.batch)
         /\ last.given[k] = last.results[k]

\* C6 witness: a successful flush of several items
C6_Witness == last.ok /\ Len(last.batch) = MAX_BATCH_SIZE

\* C8: a flush ends either with every item resolved and none rejected, or
\* with every item rejected with the one terminating error and none resolved.
C8_AllOrNothing ==
  \/ /\ \A k \in 1..Len(last.batch) :
          resolved[last.batch[k]] = 1 /\ rejected[last.batch[k]] = 0
     /\ last.ok
  \/ /\ \A k \in 1..Len(last.batch) :
          /\ resolved[last.batch[k]] = 0 /\ rejected[last.batch[k]] = 1
          /\ last.given[k] = last.error
     /\ Len(last.given) = Len(last.batch)
     /\ ~last.ok

\* C8 witness: a flush of several items that failed
C8_Witness == ~last.ok /\ Len(last.batch) >= 2

\* C9: uploadBatch is called at most 1 + maxRetries times for a batch; a
\* conflict error fails the batch only when it comes from the last of these
\* calls; a batch that succeeds after conflicts gets one result set, all of
\* one commit, every item resolved once and none rejected.
C9_ConflictRetry ==
  /\ uq.calls <= maxRetries + 1
  /\ uq.pc = "backoff" => uq.retries = uq.calls /\ uq.retries <= maxRetries
  /\ ~last.ok /\ IsConflict(last.error) =>
       last.calls = maxRetries + 1 /\ last.error.call = maxRetries + 1
  /\ last.ok =>
       /\ last.calls \in 1..(maxRetries + 1)
       /\ \A k \in 1..Len(last.batch) :
            /\ last.results[k].commit_sha = last.results[1].commit_sha
            /\ resolved[last.batch[k]] = 1
            /\ rejected[last.batch[k]] = 0

\* C9 witness: conflicts on the first two calls, success on the third
C9_Witness == last.ok /\ last.calls = 3 /\ Len(last.batch) >= 2

\* C10: an error without a conflict status is never retried: the retry
\* branch is only ever taken for a conflict, and a batch that failed with
\* another error failed on the call that raised it, every item rejected with
\* that error.
C10_NoRetryOnOtherErrors ==
  /\ uq.pc = "backoff" => IsConflict(uq.caught)
  /\ ~last.ok /\ Len(last.batch) > 0 /\ ~IsConflict(last.error) =>
       /\ last.error.call = last.calls
       /\ \A k \in 1..Len(last.batch) :
            last.given[k] = last.error /\ rejected[last.batch[k]] = 1

\* C10 witness: a batch that had been retried once fails with another error
C10_Witness ==
  /\ ~last.ok /\ last.error.status = 500 /\ last.calls = 2
  /\ Len(last.batch) >= 2

\* C11: processQueue gives up on a ref update rejected with a conflict only
\* after 1 + maxRetries commit sequences: the exception of a rejected
\* updateRef propagates only from the fourth attempt.
C11_ConflictIsRetried ==
  \A p \in Procs : pq[p].conflict => pq[p].calls = maxRetries + 1

\* C12: when a step of the commit sequence fails under the lock (a remote
\* call throws, or the ref update is rejected), the invocation pops nothing
\* and leaves the list as it is, deletes the lock key, and returns the
\* failure report.
C12_FailurePath ==
  /\ [][\A p \in Procs :
          /\ pq[p].pc = "updateRef" /\ head # pq[p].currentCommitSha
                /\ pq'[p] # pq[p] => pq'[p].thrown
          /\ pq[p].pc \in {"getRef", "updateRef"} /\ pq'[p].thrown =>
                /\ rq' = rq
                /\ pq'[p].pc = "rel_finally"
                /\ pq'[p].popped = {}
          /\ pq[p].thrown /\ pq'[p] # pq[p] =>
                /\ rq' = rq
                /\ ~lock'
                /\ pq'[p].pc = "rel_catch"
          /\ pq[p].pc = "rel_catch" /\ pq'[p] # pq[p] =>
                /\ rq' = rq
                /\ ~lock'
                /\ pq'[p].pc = "idle"
                /\ report'[p] = "failure"]_vars
  /\ [](\A p \in Procs :
          pq[p].thrown \/ pq[p].pc = "rel_catch" => pq[p].popped = {})

\* C12 witness: an invocation has reported failure after a rejected ref
\* update, the items it had fetched are still queued and the lock is free
C12_Witness ==
  \E p \in Procs :
    /\ report[p] = "failure"
    /\ pq[p].pc = "idle"
    /\ Len(rq) >= MAX_BATCH_SIZE
    /\ ~lock
    /\ head > 0

\* the structured reports processQueue returns
Reports ==
  {"disabled", "nothing", "notready", "contended", "empty", "success", "failure"}

\* C13: processQueue never throws: whatever call fails at whatever step, an
\* invocation ends by returning one of the structured reports, and an
\* invocation in which an exception was raised returns the failure report.
C13_NeverThrows ==
  /\ [](\A p \in Procs : report[p] \in Reports \cup {"none"})
  /\ [][\A p \in Procs :
          /\ pq[p].pc # "idle" /\ pq'[p].pc = "idle" => report'[p] \in Reports
          /\ pq[p].pc = "rel_catch" /\ pq'[p] # pq[p] =>
                pq'[p].pc = "idle" /\ report'[p] = "failure"
          /\ pq[p].thrown /\ pq'[p] # pq[p] => pq'[p].pc = "rel_catch"]_vars

\* C13 witness: failure was reported although the DEL of the finally block
\* and that of the catch block both failed (the key is still there)
C13_Witness ==
  /\ \A p \in Procs : pq[p].pc = "idle"
  /\ \E p \in Procs : report[p] = "failure"
  /\ lock

\* C14: while Redis is not configured or the environment is serverless, an
\* invocation of processQueue only returns the disabled report: it never
\* leaves its entry, and it changes neither the list, the lock nor the branch.
C14_DisabledNoOp ==
  /\ [](~useRedis \/ serverless =>
          /\ \A p \in Procs : pq[p] = IdleInv /\ report[p] \in {"none", "disabled"}
          /\ ~lock)
  /\ [][\A p \in Procs :
          (~useRedis \/ serverless) /\ report'[p] # report[p] =>
            /\ report'[p] = "disabled"
            /\ UNCHANGED <<rq, lock, nextId, pq, head, memVars>>]_vars

\* C14 witness: an invocation returned disabled while a full batch waits in
\* the list of a deployment classified serverless
C14_Witness ==
  /\ serverless
  /\ \E p \in Procs : report[p] = "disabled"
  /\ Len(rq) >= threshold
  /\ isOldEnough(rq)

\* the empty-batch branch needs another process to pop between the readiness
\* reads and getItems
SoloNeverFetchesEmpty == pq[Solo].pc # "rel_empty"

\* C15: an invocation that found the list non-empty and the lock free, and
\* decides while the list is shorter than the threshold and its oldest entry
\* younger than BATCH_TIMEOUT, returns "not ready" and leaves list, lock and
\* branch as they are; no step before acquireLock writes anything, so
\* repeating the invocation changes nothing.
C15_NotReadyNoOp ==
  [][/\ pq[Solo].pc = "oldest" /\ pq'[Solo] # pq[Solo]
          /\ pq[Solo].shouldProcess
          /\ Len(rq) < threshold /\ ~isOldEnough(rq) =>
            /\ report'[Solo] = "notready"
            /\ pq'[Solo] = IdleInv
            /\ UNCHANGED <<rq, lock, nextId, head>>
     /\ pq[Solo].pc \in BeforeLockPcs \ {"acquire"}
          /\ (pq'[Solo] # pq[Solo] \/ report'[Solo] # report[Solo]) =>
            UNCHANGED <<rq, lock, nextId, head>>]_vars

\* C15 witness: not ready was reported with a young entry waiting alone
C15_Witness ==
  /\ report[Solo] = "notready"
  /\ pq[Solo].pc = "idle"
  /\ Len(rq) > 0 /\ Len(rq) < threshold
  /\ ~isOldEnough(rq)
  /\ ~lock

\* C16: an invocation that starts while the list holds at least threshold
\* entries and the lock is free, with no other invocation running, acquires
\* the lock and fetches a batch and begins the commit sequence, whether or
\* not the oldest entry is old.
C16_SizeTrigger ==
  (pq[Solo].pc = "sp_size" /\ Len(rq) >= threshold /\ ~lock)
    ~> (pq[Solo].pc = "getRef" /\ lock /\ Len(pq[Solo].items) >= 1)

\* C16 witness: the commit sequence begins on a batch fetched from a full
\* list none of whose entries is old
C16_Witness ==
  /\ pq[Solo].pc = "getRef"
  /\ lock
  /\ Len(rq) >= threshold
  /\ \A k \in 1..Len(rq) : ~rq[k].old

\* C17: shouldProcess returns false when its size read finds the list empty
\* (without reading the lock key), and otherwise returns true exactly when
\* its exists read finds the lock key absent.
C17_ShouldProcess ==
  [][\A p \in Procs :
       /\ pq[p].pc = "sp_size" /\ pq'[p].pc = "size" =>
             Len(rq) = 0 /\ ~pq'[p].shouldProcess
       /\ pq[p].pc = "sp_size" /\ pq'[p].pc = "sp_exists" => Len(rq) > 0
       /\ pq[p].pc = "sp_exists" /\ pq'[p] # pq[p] /\ pq'[p].pc # "rel_catch" =>
             pq'[p].pc = "size" /\ pq'[p].shouldProcess = ~lock]_vars

\* C17 witness: shouldProcess returned false on a non-empty list whose lock
\* is held
C17_Witness ==
  \E p \in Procs :
    /\ pq[p].pc = "size"
    /\ ~pq[p].shouldProcess
    /\ Len(rq) > 0
    /\ lock

\* C18 as stated: an add that leaves fewer than threshold items in an idle
\* instance starts no flush and leaves the batch timer pending; when the
\* timer fires on fewer than threshold items, one flush starts whose batch is
\* the whole queue in enqueue order, the queue is left empty and no timer is
\* left; an idle instance with an empty queue has no pending timer.
C18_TimerFlushBelowThreshold ==
  /\ [][/\ (memNext' = memNext + 1 /\ uq.pc = "idle"
              /\ Len(uq.queue) + 1 < threshold) =>
                /\ uq'.pc = "idle"
                /\ uq'.queue = Append(uq.queue, memNext + 1)
                /\ uq'.pending
        /\ (memNext' = memNext /\ uq.pending /\ ~uq'.pending
              /\ Len(uq.queue) >= 1 /\ Len(uq.queue) < threshold) =>
                /\ uq'.pc = "getRef"
                /\ uq'.batch = uq.queue
                /\ uq'.queue = <<>>
                /\ ~uq'.timer]_vars
  /\ [](uq.pc = "idle" /\ uq.queue = <<>> => ~uq.pending)

\* C18, amended: the same for fewer than threshold and fewer than
\* MAX_BATCH_SIZE items.
C18_TimerFlush ==
  /\ [][/\ (memNext' = memNext + 1 /\ uq.pc = "idle"
              /\ Len(uq.queue) + 1 < threshold
              /\ Len(uq.queue) + 1 < MAX_BATCH_SIZE) =>
                /\ uq'.pc = "idle"
                /\ uq'.queue = Append(uq.queue, memNext + 1)
                /\ uq'.pending
        /\ (memNext' = memNext /\ uq.pending /\ ~uq'.pending
              /\ Len(uq.queue) >= 1 /\ Len(uq.queue) < threshold
              /\ Len(uq.queue) < MAX_BATCH_SIZE) =>
                /\ uq'.pc = "getRef"
                /\ uq'.batch = uq.queue
                /\ uq'.queue = <<>>
                /\ ~uq'.timer]_vars
  /\ [](uq.pc = "idle" /\ uq.queue = <<>> => ~uq.pending)

\* C18 witness: two items were enqueued below the threshold, one flush
\* committed exactly them, and nothing is pending
C18_Witness ==
  /\ memNext = 2 /\ threshold > 2
  /\ last.ok /\ last.batch = <<1, 2>>
  /\ uq.pc = "idle" /\ uq.queue = <<>> /\ ~uq.pending

\* C19: an add that leaves at least threshold or at least MAX_BATCH_SIZE
\* items in an instance with no flush in progress starts a flush within the
\* call: when it returns the batch (the oldest items, at most MAX_BATCH_SIZE)
\* is taken and uploadBatch has been entered.
C19_SizeFlush ==
  [][(memNext' = memNext + 1 /\ uq.pc = "idle"
       /\ (Len(uq.queue) + 1 >= threshold \/ Len(uq.queue) + 1 >= MAX_BATCH_SIZE)) =>
         /\ uq'.pc = "getRef"
         /\ uq'.processingLock
         /\ uq'.batch \o uq'.queue = Append(uq.queue, memNext + 1)
         /\ Len(uq'.batch) = Min(MAX_BATCH_SIZE, Len(uq.queue) + 1)]_vars

\* C19 witness: a flush started by the add that filled the batch, below the
\* threshold
C19_Witness ==
  /\ threshold > MAX_BATCH_SIZE
  /\ memNext = MAX_BATCH_SIZE
  /\ uq.pc = "getRef"
  /\ Len(uq.batch) = MAX_BATCH_SIZE

\* C20: one flush at a time: while a flush is in flight (processingLock set)
\* its batch does not change and no other flush starts, whoever asks; an
\* item added meanwhile goes to the queue, not to that batch, and was
\* enqueued after every item of the batch.
C20_OneFlushInFlight ==
  /\ [](/\ uq.processingLock = (uq.pc # "idle")
        /\ (uq.pc = "idle" => uq.batch = <<>>)
        /\ \A j \in 1..Len(uq.batch) : \A k \in 1..Len(uq.queue) :
             uq.batch[j] < uq.queue[k])
  /\ [][/\ (uq.pc # "idle" /\ uq'.pc # "idle") =>
                (uq'.batch = uq.batch /\ uq'.calls >= uq.calls)
        /\ (uq.pc # "idle" /\ memNext' = memNext + 1) =>
                /\ uq'.queue = Append(uq.queue, memNext + 1)
                /\ uq'.pc = uq.pc
                /\ ~InBatch(memNext + 1, uq'.batch)]_vars

\* C20 witness: a flush is in flight while as many items as would start one
\* have been added behind it
C20_Witness ==
  /\ uq.pc = "updateRef"
  /\ Len(uq.queue) >= threshold
  /\ Len(uq.queue) >= MAX_BATCH_SIZE

\* C21: a request whose redisQueue.add failed is answered with the result of
\* the direct upload.
C21_AddFailureFallsBack ==
  req.pc = "idle" /\ req.failed \in {"lpush", "llen"} => req.response = "direct"

\* C22: the processing triggers are fire-and-forget: a request of the queued
\* path whose Redis calls were answered gets the "queued" response whether
\* the trigger went out or failed, its item is pushed, and neither the steps
\* that fire a trigger nor the response wait for or touch list, lock, branch
\* or processor.
C22_TriggerBestEffort ==
  /\ [](req.pc = "idle" /\ req.id # 0
           /\ req.failed \notin {"lpush", "llen", "size"} =>
          req.response = "queued")
  /\ [](req.response = "queued" => req.id \in 1..nextId /\ req.failed = "none")
  /\ [][req.pc \in {"llen", "size"} /\ req' # req =>
          UNCHANGED <<rq, lock, nextId, pq, report, head>>]_vars

\* C22 witness: the queued response was given although the trigger failed,
\* with the item still in the list and nothing committed
C22_Witness ==
  /\ req.response = "queued"
  /\ req.trigger = "failed"
  /\ req.id \in Ids(rq)
  /\ head = 0

\* C23: no pushed item disappears uncommitted: an entry leaves the list only
\* after the ref update of a batch that contains it was accepted (and so an
\* item that is eventually gone from the list was committed).
C23_RemovedOnlyWhenCommitted ==
  [][\A k \in 1..Len(rq) :
       rq[k].id \notin Ids(rq') => rq[k].done]_vars

\* C24: results exist only for committed batches. An item's resolve callback
\* is called only in the step in which the ref update of the attempt holding
\* that item is accepted; processQueue reports success only when its own ref
\* update was accepted, and that flag is raised by an accepted update alone;
\* a failed attempt (a retry or the reject loop) resolves nothing.
C24_ResultsOnlyForCommitted ==
  /\ [][\A x \in 1..MaxMemAdds :
          resolved'[x] # resolved[x] =>
            /\ uq.pc = "updateRef" /\ InBatch(x, uq.batch)
            /\ head = uq.currentCommitSha /\ head' = head + 1]_vars
  /\ [][(rejected' # rejected \/ uq'.retries > uq.retries) =>
          resolved' = resolved]_vars
  /\ [][\A p \in Procs :
          (report'[p] = "success" /\ report[p] # "success") =>
            pq[p].updated /\ ~pq[p].thrown]_vars
  /\ [][\A p \in Procs :
          (pq'[p].updated /\ ~pq[p].updated) =>
            /\ pq[p].pc = "updateRef"
            /\ head = pq[p].currentCommitSha /\ head' = head + 1]_vars

\* one invocation reported success after its ref update, the other one failed
\* and reported failure
C24_Witness ==
  /\ report[Solo] = "success" /\ pq[Solo].pc = "idle" /\ head >= 1
  /\ \E p \in Procs : report[p] = "failure"

\* commit a is commit c or one of its ancestors
RECURSIVE IsAncestor(_, _)
IsAncestor(a, c) ==
  IF a = c THEN TRUE
  ELSE IF c = 0 THEN FALSE
  ELSE IsAncestor(a, parents[c])

\* C25: optimistic concurrency on the branch. The commit a batch attempt moves
\* the branch to has as parent the head that attempt read (for both queues);
\* an update whose parent is no longer the head is rejected and leaves the
\* branch alone; every commit the branch ever pointed to stays an ancestor of
\* the current head, whoever the writers are.
C25_FastForwardOnly ==
  /\ [](Len(parents) = head /\ \A c \in 0..Len(parents) : IsAncestor(c, head))
  /\ [][\A p \in Procs :
          (pq[p].pc = "updateRef" /\ pq'[p] # pq[p]) =>
            IF head = pq[p].currentCommitSha /\ ~pq'[p].thrown
              THEN head' = head + 1 /\ parents'[head'] = pq[p].currentCommitSha
              ELSE head' = head /\ pq'[p].thrown]_vars
  /\ [][(uq.pc = "updateRef" /\ uq' # uq) =>
          IF head' # head
            THEN /\ head = uq.currentCommitSha
                 /\ head' = head + 1 /\ parents'[head'] = uq.currentCommitSha
            ELSE resolved' = resolved]_vars
  /\ [][(uq.pc = "updateRef" /\ uq' # uq /\ head # uq.currentCommitSha) =>
          head' = head]_vars

\* an invocation's update was rejected because another writer had moved the
\* branch after its getRef, and a later update was accepted on top of it
C25_Witness ==
  /\ head = MaxHead
  /\ \E p \in Procs : pq[p].conflict
  /\ \E p \in Procs : pq[p].updated

\* str is leading spaces, an optional sign, and then digits up to its end;
\* first is the place of its first digit
IsIntegerAt(str, first) ==
  /\ first \in 1..Len(str)
  /\ \A k \in first..Len(str) : IsDigit(str[k])
  /\ \E w \in 0..(first - 1) :
       /\ \A k \in 1..w : str[k] = " "
       /\ \/ first = w + 1
          \/ first = w + 2 /\ str[w + 1] \in {"-", "+"}
IsInteger(str) == \E first \in 1..Len(str) : IsIntegerAt(str, first)

\* the number a run of digits denotes: the one whose numeral it is, leading
\* zeros apart
Denoted(digits) ==
  CHOOSE n \in 0..999 :
    \E z \in 0..(Len(digits) - 1) :
      digits = [k \in 1..z |-> "0"] \o NumberToString(n)

IntegerValue(str) ==
  LET first == CHOOSE f \in 1..Len(str) : IsIntegerAt(str, f)
      n == Denoted(SubSeq(str, first, Len(str)))
  IN  IF first > 1 /\ str[first - 1] = "-" THEN 0 - n ELSE n

\* C26: once computed, the threshold is the override when the override is an
\* integer greater than 0, and the default when the override is unset, is not
\* an integer, or is zero or negative; it is always positive.
C26_OverrideOrDefault ==
  "threshold" \in loaded =>
    LET raw == Getenv(host, "AUTO_SUBMIT_THRESHOLD") IN
      /\ threshold > 0
      /\ IF raw # undefined /\ IsInteger(raw) /\ IntegerValue(raw) > 0
           THEN threshold = IntegerValue(raw)
           ELSE threshold = DefaultThreshold

\* C27 as stated: the classification, once computed, is true exactly when the
\* Deno marker is present, or fetch is present and process absent, or one of
\* the provider variables is set.
C27_FirstMatchSet ==
  "serverless" \in loaded =>
    serverless = (\/ host.Deno
                  \/ host.fetch /\ host.process = "absent"
                  \/ \E v \in serverlessVars : Getenv(host, v) # undefined)

\* C27: the classification, once computed, is true exactly when the Deno
\* marker is present, or fetch is present and process absent, or one of the
\* provider variables is set to a non-empty value; so a long-lived runtime
\* with process present and none of them set is not serverless.
C27_FirstMatch ==
  "serverless" \in loaded =>
    serverless = (\/ host.Deno
                  \/ host.fetch /\ host.process = "absent"
                  \/ \E v \in serverlessVars :
                       Getenv(host, v) \notin {undefined, <<>>})

\* a Node.js server with a global fetch was classified serverless by the
\* third test alone, on a variable other than the first of the list
C27_Witness ==
  /\ "serverless" \in loaded /\ serverless
  /\ ~host.Deno /\ host.fetch /\ host.process = "node"
  /\ host.env["VERCEL"] = undefined /\ host.env["K_SERVICE"] = <<"1">>

\* where the k-th name starts in the joined string, less one; and the length
\* of the joined string
RECURSIVE NameOffset(_, _)
NameOffset(names, k) ==
  IF k = 1 THEN 0 ELSE NameOffset(names, k - 1) + Len(names[k - 1]) + 2
JoinedLen(names) == NameOffset(names, Len(names)) + Len(names[Len(names)])

\* C28: the commit message of a batch of one item is 'Upload image: ' and the
\* name; that of n > 1 items is 'Batch upload n images: ', then the names in
\* batch order separated by ', ' as far as the first MessageLimit characters
\* go, then '...' exactly when the joined names are longer than MessageLimit.
C28_CommitMessage ==
  commitMessage # <<>> =>
    LET n == Len(batchNames)
        len == JoinedLen(batchNames)
        kept == Min(len, MessageLimit)
        body == SubSeq(commitMessage, 4, 3 + kept)
        rest == SubSeq(commitMessage, 4 + kept, Len(commitMessage))
    IN  IF n = 1
          THEN commitMessage = <<"Upload image: ">> \o batchNames[1]
          ELSE /\ SubSeq(commitMessage, 1, 3) =
                    <<"Batch upload ", Digits[n + 1], " images: ">>
               /\ Len(body) = kept
               /\ \A k \in 1..n :
                    LET o == NameOffset(batchNames, k)
                        e == o + Len(batchNames[k])
                    IN  /\ \A c \in 1..Len(batchNames[k]) :
                             o + c <= kept => body[o + c] = batchNames[k][c]
                        /\ (k < n /\ e + 1 <= kept) => body[e + 1] = ","
                        /\ (k < n /\ e + 2 <= kept) => body[e + 2] = " "
               /\ rest = IF len > MessageLimit THEN <<".", ".", ".">> ELSE <<>>

\* a message was built for a batch whose joined names are exactly
\* MessageLimit characters long
C28_Witness ==
  /\ commitMessage # <<>>
  /\ Len(batchNames) = 2
  /\ JoinedLen(batchNames) = MessageLimit

\* C29: the lock is released only by its holder: a step of an invocation
\* takes the lock key away only while that invocation holds the lock (it has
\* acquired it and has not released it yet).
C29_ReleasedByHolder ==
  [][\A p \in Procs :
       (pq'[p] # pq[p] /\ lock /\ ~lock') => pq[p].holds]_vars

\* C30: no lock leak: an invocation that has acquired the lock and has not
\* released it yet releases it in the step in which it returns, whatever path
\* it took (commit success, commit error, error while removing items); on the
\* empty-fetch path it has released it before.
C30_NoLockLeak ==
  /\ [][\A p \in Procs :
          (pq[p].holds /\ pq'[p].pc = "idle") => ~lock']_vars
  /\ [][\A p \in Procs :
          (pq[p].pc = "fetch" /\ pq'[p].pc = "rel_empty") => pq'[p].holds]_vars
  /\ [](\A p \in Procs : pq[p].holds => pq[p].pc \in FlushPcs \cup {"rel_empty", "rel_finally"})

\* the finally block has released the lock after an exception, and the catch
\* block is still to run
C30_Witness ==
  \E p \in Procs : pq[p].pc = "rel_catch" /\ ~pq[p].holds /\ ~lock

\* C31: the batch getItems is building, and the one it returns, holds each
\* queue entry at most once, whatever adds interleave with its range reads.
C31_NoDuplicateInBatch ==
  \A p \in Procs : Cardinality(Ids(pq[p].items)) = Len(pq[p].items)

\* the sizes of the first k items of a sequence, added up
RECURSIVE SizeSum(_, _)
SizeSum(items, k) == IF k = 0 THEN 0 ELSE SizeSum(items, k - 1) + items[k].size

\* the parseable entries among the first maxItems of the list, as items
Parseable(list, maxItems) ==
  LET window == SubSeq(list, 1, Min(maxItems, Len(list)))
      good == SelectSeq(window, LAMBDA e : e.ok)
  IN  [k \in 1..Len(good) |-> [id |-> good[k].id, size |-> good[k].size]]

\* C32: getItems on an untouched queue returns the parseable entries among
\* the first maxItems, in order, up to but not including the first one that
\* would take the sizes over maxBytes, the first item being taken whatever
\* its size; unparseable entries are skipped; the queue is left as it was.
C32_GetItemsLimits ==
  /\ [](pq[Solo].pc \in {"rel_empty", "getRef"} =>
          LET items == pq[Solo].items
              all == Parseable(rq, getItemsArgs.maxItems)
              fits(m) == \A k \in 2..m : SizeSum(all, k) <= getItemsArgs.maxBytes
              m == CHOOSE n \in 0..Len(all) :
                     fits(n) /\ (n < Len(all) => ~fits(n + 1))
          IN  /\ Len(items) <= getItemsArgs.maxItems
              /\ items = SubSeq(all, 1, m))
  /\ [][pq' # pq => rq' = rq]_vars

\* a fetch that skipped an unparseable entry and stopped at the byte limit
\* before the count limit
C32_Witness ==
  /\ pq[Solo].pc = "getRef" /\ Len(pq[Solo].items) = 2
  /\ Len(rq) = 4 /\ getItemsArgs.maxItems = 4
  /\ ~rq[1].ok /\ rq[2].ok /\ rq[3].ok /\ rq[4].ok

\* C33: the success path of an invocation: the lock is acquired in the step
\* that enters the fetch, the commit sequence follows the fetch, the pops
\* follow an accepted ref update, each pop takes the last entry of the list,
\* and the lock is released after the last pop, in the step that reports
\* success; by then as many entries were popped as items were fetched, and
\* the returned value holds that number and the commit the branch was moved to.
C33_SuccessPathOrder ==
  /\ [][(pq'[Solo].pc = "fetch" /\ pq[Solo].pc # "fetch") =>
          pq[Solo].pc = "acquire" /\ ~lock /\ lock']_vars
  /\ [][(pq'[Solo].pc = "getRef" /\ pq[Solo].pc # "getRef") =>
          pq[Solo].pc = "fetch" /\ lock]_vars
  /\ [][(pq'[Solo].pc = "remove" /\ pq[Solo].pc # "remove") =>
          /\ pq[Solo].pc = "updateRef" /\ head' = head + 1
          /\ pq'[Solo].toPop = Len(pq[Solo].items)
          /\ pq'[Solo].popped = {}]_vars
  /\ [][(pq[Solo].pc = "remove" /\ pq'[Solo].popped # pq[Solo].popped) =>
          rq = rq' \o <<rq[Len(rq)]>> /\ lock']_vars
  /\ [](pq[Solo].ret # NoReturn =>
          /\ pq[Solo].pc = "rel_finally" /\ lock
          /\ Cardinality(pq[Solo].popped) = Len(pq[Solo].items)
          /\ pq[Solo].ret.batchSize = Len(pq[Solo].items)
          /\ pq[Solo].ret.commitSha \in 1..head
          /\ parents[pq[Solo].ret.commitSha] = pq[Solo].ret.commitSha - 1)
  /\ [][(report'[Solo] = "success" /\ report[Solo] # "success") =>
          pq[Solo].ret # NoReturn /\ pq[Solo].ret.batchSize >= 1 /\ ~lock']_vars

\* the last pop of a full batch is done and the lock is still to be released,
\* while another writer has moved the branch past the new commit
C33_Witness ==
  /\ pq[Solo].pc = "rel_finally" /\ pq[Solo].ret.batchSize = MAX_BATCH_SIZE
  /\ pq[Solo].ret.commitSha = 1 /\ head = 2


\* ------------------------------------------------------------------ C34
\* the batch timer is armed: a timeout was set and has neither fired nor
\* been cleared
TimerArmed == uq.timer /\ uq.pending

\* C34: between operations of the in-memory UploadQueue, a non-empty queue
\* with no flush in progress has its batch timer armed, and an armed timer
\* means a non-empty queue and no flush in progress
C34_TimerInvariant ==
  /\ (Len(uq.queue) > 0 /\ ~uq.processing) => TimerArmed
  /\ TimerArmed => (Len(uq.queue) > 0 /\ ~uq.processing)

\* a flush has ended with items left in the queue, and the timer runs again
C34_Witness ==
  /\ last # NoFlush
  /\ Len(uq.queue) > 0
  /\ ~uq.processing
  /\ ~uq.processingLock
  /\ TimerArmed


\* ------------------------------------------------------------------ C35
\* the promise of item x was settled: resolve or reject was called for it
Settled(x) == resolved[x] + rejected[x] >= 1

\* C35: when timers fire and every uploadBatch call terminates, every item
\* passed to add of the in-memory UploadQueue eventually has its promise
\* settled, also when it was enqueued during a flush or left over by one
C35_EverySettled ==
  \A x \in 1..MaxMemAdds : (x <= memNext) ~> Settled(x)

\* with a threshold of one, items 2, 3 and 4 can only have been enqueued
\* while the flush of item 1 was in flight; they were flushed together as a
\* full batch, and item 5, which came after them, was settled by a third
\* flush
C35_Witness ==
  /\ threshold = 1
  /\ memNext >= 5
  /\ resolved[1] = 1
  /\ rejected[2] = 1 /\ rejected[3] = 1 /\ rejected[4] = 1
  /\ last.batch = <<5>>
  /\ Settled(5)
  /\ uq.pc = "idle"


\* ------------------------------------------------------------------ C36
\* how often item x occurs in a list of items
Times(x, list) == Cardinality({k \in 1..Len(list) : list[k] = x})

\* the callbacks of item x that were called so far
Settlements(x) == resolved[x] + rejected[x]

\* C36: every item passed to add of the in-memory UploadQueue is in exactly
\* one place, the queue, the batch of the flush in flight, or settled; an
\* item that was taken into a batch never comes back into the queue, and a
\* settled item (resolved or rejected) is in no later batch
C36_ItemOwnership ==
  /\ [](\A x \in 1..MaxMemAdds :
          IF x <= memNext
            THEN /\ Times(x, uq.queue) + Times(x, uq.batch) + Settlements(x) = 1
                 /\ Times(x, uq.batch) = 1 => uq.processing
            ELSE Times(x, uq.queue) + Times(x, uq.batch) + Settlements(x) = 0)
  /\ [][\A x \in 1..MaxMemAdds :
          /\ (Times(x, uq.batch) = 1 \/ Settlements(x) = 1)
               => Times(x, uq'.queue) = 0
          /\ Settlements(x) = 1 => Times(x, uq'.batch) = 0
          /\ Settlements(x) = 1 => resolved'[x] = resolved[x]
          /\ Settlements(x) = 1 => rejected'[x] = rejected[x]]_vars

\* a batch has failed and its items were rejected, and a later flush is in
\* flight with other items while more items wait in the queue
C36_Witness ==
  /\ last # NoFlush
  /\ ~last.ok
  /\ Len(last.batch) = 2
  /\ \A k \in 1..Len(last.batch) : rejected[last.batch[k]] = 1
  /\ uq.processing
  /\ Len(uq.batch) >= 1
  /\ Len(uq.queue) >= 1


\* ------------------------------------------------------------------ C37
\* C37: the upload handler and processQueue agree on when queueing is on:
\* an item is pushed into the shared queue only in a configuration where
\* processQueue does not report disabled (Redis configured, environment not
\* detected as serverless), so processQueue never reports disabled after an
\* upload was queued
C37_GatingAgrees ==
  /\ nextId > 0 => ~(~useRedis \/ serverless)
  /\ \A p \in Procs : report[p] = "disabled" => nextId = 0

=============================================================================
